---- MODULE Spec2Model ----
(***************************************************************************)
(* Model of the reply pipeline of the Telegram intent bot:                 *)
(*   src/src/config.py           ConfigStore (rule tables, toggles)        *)
(*   src/src/keyword_matcher.py  KeywordMatcher.match                      *)
(*   src/src/llm_client.py       LLMClient._parse_response / classify      *)
(*   src/src/intent_classifier.py IntentClassifier.classify                *)
(*   src/src/reply_manager.py    ReplyManager.get_reply                    *)
(*   src/src/message_handler.py  MessageHandler.handle                     *)
(*   src/src/bot.py              TelegramBot._handle_message and           *)
(*                               _send_reply_with_retry                    *)
(*                                                                         *)
(* A Python str is a finite sequence of characters; an intent tag is a     *)
(* str of one symbol.  An Optional[str] (and a decoded JSON value) is a    *)
(* record [t, v]: t is the Python type, v the text of a str.               *)
(***************************************************************************)
EXTENDS Integers, Sequences, FiniteSets, TLC

VARIABLES
    bot_config,          \* ConfigStore._bot_config (the two toggles)
    intents,             \* ConfigStore._intents
    keywords,            \* ConfigStore._keywords, KeywordMatcher._keywords
    faqs,                \* ConfigStore._faqs
    intent_reply_map,    \* ConfigStore._intent_reply_map
    keyword_reply_map,   \* ConfigStore._keyword_reply_map
    faq_reply_map,       \* ConfigStore._faq_reply_map
    pc,                  \* position of the operation under way
    text,                \* the message text handed to the operation
    matched,             \* what KeywordMatcher.match returned
    remote,              \* what the remote chat-completion call did
    result,              \* the ClassifyResult produced / consumed
    raised,              \* whether an exception reached the caller
    reply,               \* what ReplyManager.get_reply returned
    decision,            \* the HandleResult returned by handle
    matcher_calls,       \* number of KeywordMatcher.match invocations
    classifier_calls,    \* number of IntentClassifier.classify invocations
    classify_text,       \* the message given to IntentClassifier.classify
    update,              \* the Telegram update given to _handle_message
    dpc,                 \* position of _handle_message and of the delivery
    attempt,             \* loop variable of _send_reply_with_retry
    events,              \* sends, sleeps and error logs of the delivery
    max_retries,         \* parameter of _send_reply_with_retry
    retry_delay,         \* parameter of _send_reply_with_retry (ms)
    document,            \* the configuration document given to load
    tasks                \* the _handle_message tasks in flight together

vars == <<bot_config, intents, keywords, faqs, intent_reply_map,
          keyword_reply_map, faq_reply_map, pc, text, matched, remote,
          result, raised, reply, decision, matcher_calls, classifier_calls,
          classify_text, update, dpc, attempt, events, max_retries,
          retry_delay, document, tasks>>

store == <<bot_config, intents, keywords, faqs, intent_reply_map,
           keyword_reply_map, faq_reply_map>>

delivery == <<update, dpc, attempt, events, max_retries, retry_delay>>

----------------------------------------------------------------------------
(* Bounds of the model *)

MaxTextLen == 3        \* longest text given to KeywordMatcher.match
MaxMsgLen == 2         \* longest message text given to handle
MaxKeywords == 2       \* longest keyword list given to a KeywordMatcher
MaxRules == 1          \* longest keyword list of a configuration document

----------------------------------------------------------------------------
(* Python values *)

None == [t |-> "none", v |-> <<>>]
Str(s) == [t |-> "str", v |-> s]
Num == [t |-> "num", v |-> <<>>]

\* truth value of an Optional[str]: None and "" are falsy
Truthy(x) == x.t = "str" /\ x.v # <<>>

\* the characters texts are made of; " " is the whitespace character
Chars == {"a", "b", "/", " "}
Whitespace == {" "}

RECURSIVE SeqsUpTo(_, _)
SeqsUpTo(S, n) ==
    IF n = 0 THEN {<<>>}
    ELSE LET shorter == SeqsUpTo(S, n - 1)
         IN  shorter \cup {Append(s, x) : s \in shorter, x \in S}

\* str.startswith(prefix)
startswith(s, prefix) ==
    /\ Len(s) >= Len(prefix)
    /\ SubSeq(s, 1, Len(prefix)) = prefix

\* `sub in s` for two str: some window of s equals sub
contains(s, sub) ==
    \E i \in 0..(Len(s) - Len(sub)) : SubSeq(s, i + 1, i + Len(sub)) = sub

RECURSIVE lstrip(_)
lstrip(s) ==
    IF s # <<>> /\ Head(s) \in Whitespace THEN lstrip(Tail(s)) ELSE s

RECURSIVE rstrip(_)
rstrip(s) ==
    IF s # <<>> /\ s[Len(s)] \in Whitespace
    THEN rstrip(SubSeq(s, 1, Len(s) - 1)) ELSE s

\* str.strip()
strip(s) == rstrip(lstrip(s))

----------------------------------------------------------------------------
(* config.py: the rule tables *)

Tag(name) == <<name>>
VALID_INTENT_TAGS ==
    {Tag("TUTORIAL"), Tag("ISSUE"), Tag("SERVICE"), Tag("IGNORE"), Tag("FAQ")}

EmptyMap == [k \in {} |-> <<>>]

\* dict[key] = value
MapSet(m, key, value) ==
    [k \in DOMAIN m \cup {key} |-> IF k = key THEN value ELSE m[k]]

\* dict.get(key)
MapGet(m, key) == IF key \in DOMAIN m THEN Str(m[key]) ELSE None

\* ConfigStore._parse_keywords on a list of {keyword, reply} entries:
\* the entries are appended in order and the map keeps the last reply of a
\* keyword; an empty keyword raises ConfigError.
RECURSIVE parse_keywords(_)
parse_keywords(keywords_data) ==
    IF keywords_data = <<>>
    THEN [ok |-> TRUE, list |-> <<>>, map |-> EmptyMap]
    ELSE LET n == Len(keywords_data)
             before == parse_keywords(SubSeq(keywords_data, 1, n - 1))
             kw_data == keywords_data[n]
         IN  IF ~before.ok \/ kw_data.keyword = <<>>
             THEN [ok |-> FALSE, list |-> before.list, map |-> before.map]
             ELSE [ok |-> TRUE,
                   list |-> Append(before.list, kw_data),
                   map |-> MapSet(before.map, kw_data.keyword, kw_data.reply)]

\* ConfigStore._parse_intents on a list of {tag, reply} entries: a tag
\* outside VALID_INTENT_TAGS raises ConfigError.
RECURSIVE parse_intents(_)
parse_intents(intents_data) ==
    IF intents_data = <<>>
    THEN [ok |-> TRUE, list |-> <<>>, map |-> EmptyMap]
    ELSE LET n == Len(intents_data)
             before == parse_intents(SubSeq(intents_data, 1, n - 1))
             intent_data == intents_data[n]
         IN  IF \/ ~before.ok
                \/ intent_data.tag = <<>>
                \/ intent_data.tag \notin VALID_INTENT_TAGS
             THEN [ok |-> FALSE, list |-> before.list, map |-> before.map]
             ELSE [ok |-> TRUE,
                   list |-> Append(before.list, intent_data),
                   map |-> MapSet(before.map, intent_data.tag,
                                  intent_data.reply)]

\* ConfigStore._parse_faqs on a list of {faq_id, answer} entries: an empty
\* faq_id raises ConfigError.
RECURSIVE parse_faqs(_)
parse_faqs(faqs_data) ==
    IF faqs_data = <<>>
    THEN [ok |-> TRUE, list |-> <<>>, map |-> EmptyMap]
    ELSE LET n == Len(faqs_data)
             before == parse_faqs(SubSeq(faqs_data, 1, n - 1))
             faq_data == faqs_data[n]
         IN  IF ~before.ok \/ faq_data.faq_id = <<>>
             THEN [ok |-> FALSE, list |-> before.list, map |-> before.map]
             ELSE [ok |-> TRUE,
                   list |-> Append(before.list, faq_data),
                   map |-> MapSet(before.map, faq_data.faq_id,
                                  faq_data.answer)]

\* ConfigStore._validate_intents that checks nothing
validate_intents_skipped(intent_list) == TRUE

\* ConfigStore._validate_intents: TRUE when no ConfigError is raised
validate_intents(intent_list) ==
    \A i \in 1..Len(intent_list) :
        ~(intent_list[i].tag # Tag("IGNORE")
          /\ strip(intent_list[i].reply) = <<>>)

\* ConfigStore._parse_bot_config: the toggles of the "bot" section
parse_bot_config(bot_data) ==
    [loaded |-> TRUE,
     keyword_reply_enabled |-> bot_data.keyword_reply_enabled,
     ai_reply_enabled |-> bot_data.ai_reply_enabled]

\* ConfigStore(): nothing loaded
NoBotConfig == [loaded |-> FALSE, keyword_reply_enabled |-> FALSE,
                ai_reply_enabled |-> FALSE]
NewStore ==
    [ok |-> TRUE, bot_config |-> NoBotConfig,
     intents |-> <<>>, intent_reply_map |-> EmptyMap,
     keywords |-> <<>>, keyword_reply_map |-> EmptyMap,
     faqs |-> <<>>, faq_reply_map |-> EmptyMap]

load_onto(before, doc) ==
    LET i == parse_intents(doc.intents)
        k == parse_keywords(doc.keywords)
        f == parse_faqs(doc.faq)
        with_bot == [before EXCEPT !.bot_config = parse_bot_config(doc.bot)]
        with_intents == [with_bot EXCEPT !.intents = i.list,
                                         !.intent_reply_map = i.map]
        with_keywords == [with_intents EXCEPT !.keywords = k.list,
                                              !.keyword_reply_map = k.map]
        with_faqs == [with_keywords EXCEPT !.faqs = f.list,
                                           !.faq_reply_map = f.map]
    IN  IF ~i.ok THEN [with_intents EXCEPT !.ok = FALSE]
        ELSE IF ~k.ok THEN [with_keywords EXCEPT !.ok = FALSE]
        ELSE IF ~f.ok THEN [with_faqs EXCEPT !.ok = FALSE]
        ELSE [with_faqs EXCEPT !.ok = validate_intents(i.list)]

\* ConfigStore().load(doc)
load(doc) == load_onto(NewStore, doc)

\* no document was loaded
NoDocument == [bot |-> [keyword_reply_enabled |-> FALSE,
                        ai_reply_enabled |-> FALSE],
               intents |-> <<>>, keywords |-> <<>>, faq |-> <<>>]

\* ConfigStore.get_reply_by_intent
get_reply_by_intent(tag) == MapGet(intent_reply_map, tag)

\* ConfigStore.get_reply_by_keyword
get_reply_by_keyword(keyword) == MapGet(keyword_reply_map, keyword)

\* ConfigStore.get_reply_by_faq_id
get_reply_by_faq_id(faq_id) == MapGet(faq_reply_map, faq_id)

----------------------------------------------------------------------------
(* keyword_matcher.py *)

\* KeywordMatcher.match returning the last configured keyword contained in
\* the text
RECURSIVE match_from_last(_, _, _)
match_from_last(kws, i, t) ==
    IF i > Len(kws) THEN None
    ELSE LET later == match_from_last(kws, i + 1, t)
         IN  IF later # None THEN later
             ELSE IF contains(t, kws[i].keyword) THEN Str(kws[i].keyword)
             ELSE None

\* KeywordMatcher.match, the loop from rule i on: the first configured
\* keyword contained in the text
RECURSIVE match_from(_, _, _)
match_from(kws, i, t) ==
    IF i > Len(kws) THEN None
    ELSE IF contains(t, kws[i].keyword) THEN Str(kws[i].keyword)
    ELSE match_from(kws, i + 1, t)

match(kws, t) == match_from(kws, 1, t)

----------------------------------------------------------------------------
(* llm_client.py, intent_classifier.py *)

\* A response text is described by what json.loads makes of it:
\*   kind "invalid"   json.loads raises JSONDecodeError (also for "")
\*   kind "too_deep"  json.loads raises RecursionError (nesting too deep)
\*   kind "nondict"   a JSON value that is not an object
\*   kind "dict"      an object; intent, keyword, faq_id are the values of
\*                    these keys (JAbsent: no such key, None: null, Num: a
\*                    non-text value, Str(s): the text s), extra tells
\*                    whether the object has other keys
JAbsent == [t |-> "absent", v |-> <<>>]

IgnoreResult == [intent |-> Tag("IGNORE"), keyword |-> None, faq_id |-> None]

\* data.get(key): the value of the key, None when the key is missing
DictGet(value) == IF value = JAbsent THEN None ELSE value

\* data.get(key, default)
DictGetDefault(value, default) == IF value = JAbsent THEN default ELSE value

\* LLMClient._parse_response that rejects the whole record when keyword or
\* faq_id is not text
parse_response_rejectsBadType(response_text) ==
    IF response_text.kind = "too_deep"
    THEN [raised |-> TRUE, value |-> IgnoreResult]
    ELSE IF response_text.kind # "dict"
    THEN [raised |-> FALSE, value |-> IgnoreResult]
    ELSE LET intent == DictGetDefault(response_text.intent,
                                      Str(Tag("IGNORE")))
             keyword == DictGet(response_text.keyword)
             faq_id == DictGet(response_text.faq_id)
         IN  IF intent.t # "str" \/ intent.v \notin VALID_INTENT_TAGS
             THEN [raised |-> FALSE, value |-> IgnoreResult]
             ELSE IF keyword.t \notin {"none", "str"}
                     \/ faq_id.t \notin {"none", "str"}
             THEN [raised |-> FALSE, value |-> IgnoreResult]
             ELSE [raised |-> FALSE,
                   value |-> [intent |-> intent.v, keyword |-> keyword,
                              faq_id |-> faq_id]]

\* LLMClient._parse_response: the ClassifyResult, or the exception that
\* escapes (only JSONDecodeError is caught)
parse_response(response_text) ==
    IF response_text.kind = "too_deep"
    THEN [raised |-> TRUE, value |-> IgnoreResult]
    ELSE IF response_text.kind = "invalid"
    THEN [raised |-> FALSE, value |-> IgnoreResult]
    ELSE IF response_text.kind # "dict"
    THEN [raised |-> FALSE, value |-> IgnoreResult]
    ELSE LET intent == DictGetDefault(response_text.intent,
                                      Str(Tag("IGNORE")))
             keyword == DictGet(response_text.keyword)
             faq_id == DictGet(response_text.faq_id)
         IN  IF intent.t # "str"
             THEN [raised |-> FALSE, value |-> IgnoreResult]
             ELSE IF intent.v \notin VALID_INTENT_TAGS
             THEN [raised |-> FALSE, value |-> IgnoreResult]
             ELSE [raised |-> FALSE,
                   value |-> [intent |-> intent.v,
                              keyword |-> IF keyword # None
                                             /\ keyword.t # "str"
                                          THEN None ELSE keyword,
                              faq_id |-> IF faq_id # None
                                            /\ faq_id.t # "str"
                                         THEN None ELSE faq_id]]

\* message.content of a response without content
NoContent == [kind |-> "none", intent |-> JAbsent, keyword |-> JAbsent,
              faq_id |-> JAbsent, extra |-> FALSE]
\* the text ""
EmptyText == [kind |-> "invalid", intent |-> JAbsent, keyword |-> JAbsent,
              faq_id |-> JAbsent, extra |-> FALSE]

\* LLMClient.classify: rem.call tells how chat.completions.create ended
\* ("api_error", "timeout": it raised; "no_choices": it returned no choice;
\* "response": it returned a choice with content rem.content).  Every
\* Exception is caught and answered with IGNORE.
llm_classify(rem) ==
    IF rem.call \in {"api_error", "timeout", "no_choices"}
    THEN [raised |-> FALSE, value |-> IgnoreResult]
    ELSE LET response_text == IF rem.content = NoContent
                              THEN EmptyText ELSE rem.content
             parsed == parse_response(response_text)
         IN  IF parsed.raised
             THEN [raised |-> FALSE, value |-> IgnoreResult]
             ELSE parsed

\* IntentClassifier.classify without its try/except
classify_noCatch(rem) ==
    IF rem.call = "config_error"
    THEN [raised |-> TRUE, value |-> IgnoreResult]
    ELSE llm_classify(rem)

\* IntentClassifier.classify: rem.call = "config_error" is an exception
\* while the configuration is read; every Exception is caught and answered
\* with IGNORE.
classify(rem) ==
    IF rem.call = "config_error"
    THEN [raised |-> FALSE, value |-> IgnoreResult]
    ELSE LET llm == llm_classify(rem)
         IN  IF llm.raised
             THEN [raised |-> FALSE, value |-> IgnoreResult]
             ELSE llm

----------------------------------------------------------------------------
(* reply_manager.py *)

\* ReplyManager.get_reply with the FAQ rules removed
get_reply_noFaqRule(res) ==
    IF res.intent = Tag("IGNORE") THEN None
    ELSE LET keyword_reply == get_reply_by_keyword(res.keyword.v)
             intent_reply == get_reply_by_intent(res.intent)
         IN  IF Truthy(res.keyword) /\ keyword_reply # None
             THEN keyword_reply
             ELSE IF Truthy(intent_reply) THEN intent_reply
             ELSE None

\* ReplyManager.get_reply without the IGNORE rule
get_reply_noIgnoreRule(res) ==
    LET faq_reply == get_reply_by_faq_id(res.faq_id.v)
        keyword_reply == get_reply_by_keyword(res.keyword.v)
        intent_reply == get_reply_by_intent(res.intent)
    IN  IF res.intent = Tag("FAQ") /\ Truthy(res.faq_id)
        THEN (IF faq_reply # None THEN faq_reply ELSE None)
        ELSE IF Truthy(res.keyword) /\ keyword_reply # None
        THEN keyword_reply
        ELSE IF Truthy(intent_reply) THEN intent_reply
        ELSE None

\* ReplyManager.get_reply with an unknown faq_id falling through to the
\* keyword and intent rules
get_reply_faqFallsThrough(res) ==
    IF res.intent = Tag("IGNORE") THEN None
    ELSE LET faq_reply == get_reply_by_faq_id(res.faq_id.v)
             keyword_reply == get_reply_by_keyword(res.keyword.v)
             intent_reply == get_reply_by_intent(res.intent)
         IN  IF res.intent = Tag("FAQ") /\ Truthy(res.faq_id)
                /\ faq_reply # None
             THEN faq_reply
             ELSE IF Truthy(res.keyword) /\ keyword_reply # None
             THEN keyword_reply
             ELSE IF Truthy(intent_reply) THEN intent_reply
             ELSE None

\* ReplyManager.get_reply with the intent reply tried before the keyword
get_reply_intentFirst(res) ==
    IF res.intent = Tag("IGNORE") THEN None
    ELSE LET faq_reply == get_reply_by_faq_id(res.faq_id.v)
             keyword_reply == get_reply_by_keyword(res.keyword.v)
             intent_reply == get_reply_by_intent(res.intent)
         IN  IF res.intent = Tag("FAQ") /\ Truthy(res.faq_id)
             THEN (IF faq_reply # None THEN faq_reply ELSE None)
             ELSE IF Truthy(intent_reply) THEN intent_reply
             ELSE IF Truthy(res.keyword) /\ keyword_reply # None
             THEN keyword_reply
             ELSE None

\* ReplyManager.get_reply giving up when the keyword is not configured
get_reply_unknownKeywordSilent(res) ==
    IF res.intent = Tag("IGNORE") THEN None
    ELSE LET faq_reply == get_reply_by_faq_id(res.faq_id.v)
             keyword_reply == get_reply_by_keyword(res.keyword.v)
             intent_reply == get_reply_by_intent(res.intent)
         IN  IF res.intent = Tag("FAQ") /\ Truthy(res.faq_id)
             THEN (IF faq_reply # None THEN faq_reply ELSE None)
             ELSE IF Truthy(res.keyword)
             THEN keyword_reply
             ELSE IF Truthy(intent_reply) THEN intent_reply
             ELSE None

\* ReplyManager.get_reply that is silent for FAQ without a faq_id
get_reply_faqNeedsId(res) ==
    IF res.intent = Tag("IGNORE") THEN None
    ELSE LET faq_reply == get_reply_by_faq_id(res.faq_id.v)
             keyword_reply == get_reply_by_keyword(res.keyword.v)
             intent_reply == get_reply_by_intent(res.intent)
         IN  IF res.intent = Tag("FAQ")
             THEN (IF Truthy(res.faq_id) /\ faq_reply # None
                   THEN faq_reply ELSE None)
             ELSE IF Truthy(res.keyword) /\ keyword_reply # None
             THEN keyword_reply
             ELSE IF Truthy(intent_reply) THEN intent_reply
             ELSE None

\* ReplyManager.get_reply: IGNORE, then FAQ, then keyword, then intent
get_reply(res) ==
    IF res.intent = Tag("IGNORE") THEN None
    ELSE LET faq_reply == get_reply_by_faq_id(res.faq_id.v)
             keyword_reply == get_reply_by_keyword(res.keyword.v)
             intent_reply == get_reply_by_intent(res.intent)
         IN  IF res.intent = Tag("FAQ") /\ Truthy(res.faq_id)
             THEN (IF faq_reply # None THEN faq_reply ELSE None)
             ELSE IF Truthy(res.keyword) /\ keyword_reply # None
             THEN keyword_reply
             ELSE IF Truthy(intent_reply) THEN intent_reply
             ELSE None

----------------------------------------------------------------------------
(* message_handler.py *)

MIN_MESSAGE_LENGTH == 2

\* HandleResult(should_reply=False)
Silence == [should_reply |-> FALSE, reply_text |-> None,
            matched_keyword |-> None, intent |-> None]

\* MessageHandler.should_ignore_message without the command rule
should_ignore_message_lengthOnly(t) ==
    Len(t) < MIN_MESSAGE_LENGTH

\* MessageHandler.should_ignore_message: too short, or a command
should_ignore_message(t) ==
    IF Len(t) < MIN_MESSAGE_LENGTH THEN TRUE
    ELSE IF startswith(t, <<"/">>) THEN TRUE
    ELSE FALSE

\* how the part of handle before its await ends: "returned" with the
\* HandleResult, or "classifying" (suspended in classifier.classify), with
\* what the matcher returned and the calls made
HandleReturned(d, m, mcalls) ==
    [pc |-> "returned", decision |-> d, matched |-> m,
     matcher_calls |-> mcalls, classifier_calls |-> 0,
     classify_text |-> None]
HandleSuspended(m, mcalls, message) ==
    [pc |-> "classifying", decision |-> Silence, matched |-> m,
     matcher_calls |-> mcalls, classifier_calls |-> 1,
     classify_text |-> Str(message)]

\* MessageHandler.handle with the classification phase tried before the
\* keyword phase
handle_sync_aiFirst(t) ==
    IF should_ignore_message(t) THEN HandleReturned(Silence, None, 0)
    ELSE
    LET keyword_enabled == bot_config.keyword_reply_enabled
        ai_enabled == bot_config.ai_reply_enabled
        matched_keyword == match(keywords, t)
    IN  IF ~keyword_enabled /\ ~ai_enabled
        THEN HandleReturned(Silence, None, 0)
        ELSE IF ai_enabled
        THEN HandleSuspended(None, 0, t)
        ELSE IF keyword_enabled /\ Truthy(matched_keyword)
        THEN HandleReturned(
                 [should_reply |-> TRUE,
                  reply_text |-> get_reply_by_keyword(matched_keyword.v),
                  matched_keyword |-> matched_keyword,
                  intent |-> None],
                 matched_keyword, 1)
        ELSE HandleReturned(Silence, IF keyword_enabled
                                     THEN matched_keyword ELSE None,
                            IF keyword_enabled THEN 1 ELSE 0)

\* MessageHandler.handle that never reads the toggles
handle_sync_ignoresToggles(t) ==
    IF should_ignore_message(t) THEN HandleReturned(Silence, None, 0)
    ELSE
    LET matched_keyword == match(keywords, t)
    IN  IF Truthy(matched_keyword)
        THEN HandleReturned(
                 [should_reply |-> TRUE,
                  reply_text |-> get_reply_by_keyword(matched_keyword.v),
                  matched_keyword |-> matched_keyword,
                  intent |-> None],
                 matched_keyword, 1)
        ELSE HandleSuspended(matched_keyword, 1, t)

\* MessageHandler.handle that runs the matcher whatever the keyword toggle
\* is
handle_sync_matcherAlways(t) ==
    IF should_ignore_message(t) THEN HandleReturned(Silence, None, 0)
    ELSE
    LET keyword_enabled == bot_config.keyword_reply_enabled
        ai_enabled == bot_config.ai_reply_enabled
        matched_keyword == match(keywords, t)
    IN  IF ~keyword_enabled /\ ~ai_enabled
        THEN HandleReturned(Silence, None, 0)
        ELSE IF keyword_enabled /\ Truthy(matched_keyword)
        THEN HandleReturned(
                 [should_reply |-> TRUE,
                  reply_text |-> get_reply_by_keyword(matched_keyword.v),
                  matched_keyword |-> matched_keyword,
                  intent |-> None],
                 matched_keyword, 1)
        ELSE IF ai_enabled
        THEN HandleSuspended(matched_keyword, 1, t)
        ELSE HandleReturned(Silence, matched_keyword, 1)

\* MessageHandler.handle that gives the classifier the trimmed text
handle_sync_stripsText(t) ==
    IF should_ignore_message(t) THEN HandleReturned(Silence, None, 0)
    ELSE
    LET keyword_enabled == bot_config.keyword_reply_enabled
        ai_enabled == bot_config.ai_reply_enabled
        matched_keyword == match(keywords, t)
    IN  IF ~keyword_enabled /\ ~ai_enabled
        THEN HandleReturned(Silence, None, 0)
        ELSE IF keyword_enabled /\ Truthy(matched_keyword)
        THEN HandleReturned(
                 [should_reply |-> TRUE,
                  reply_text |-> get_reply_by_keyword(matched_keyword.v),
                  matched_keyword |-> matched_keyword,
                  intent |-> None],
                 matched_keyword, 1)
        ELSE LET m == IF keyword_enabled THEN matched_keyword ELSE None
                 mcalls == IF keyword_enabled THEN 1 ELSE 0
             IN  IF ai_enabled
                 THEN HandleSuspended(m, mcalls, strip(t))
                 ELSE HandleReturned(Silence, m, mcalls)

\* MessageHandler.handle up to its await: filter, toggles, keyword phase
handle_sync(t) ==
    IF should_ignore_message(t) THEN HandleReturned(Silence, None, 0)
    ELSE
    LET keyword_enabled == bot_config.keyword_reply_enabled
        ai_enabled == bot_config.ai_reply_enabled
        matched_keyword == match(keywords, t)
    IN  IF ~keyword_enabled /\ ~ai_enabled
        THEN HandleReturned(Silence, None, 0)
        ELSE IF keyword_enabled /\ Truthy(matched_keyword)
        THEN HandleReturned(
                 [should_reply |-> TRUE,
                  reply_text |-> get_reply_by_keyword(matched_keyword.v),
                  matched_keyword |-> matched_keyword,
                  intent |-> None],
                 matched_keyword, 1)
        ELSE LET m == IF keyword_enabled THEN matched_keyword ELSE None
                 mcalls == IF keyword_enabled THEN 1 ELSE 0
             IN  IF ai_enabled
                 THEN HandleSuspended(m, mcalls, t)
                 ELSE HandleReturned(Silence, m, mcalls)

\* MessageHandler.handle that answers with the intent-level reply instead
\* of the resolver's reply
handle_resume_intentReplyOnly(res) ==
    LET r == get_reply_by_intent(res.intent)
    IN  IF Truthy(r)
        THEN [should_reply |-> TRUE, reply_text |-> r,
              matched_keyword |-> res.keyword, intent |-> Str(res.intent)]
        ELSE [should_reply |-> FALSE, reply_text |-> None,
              matched_keyword |-> None, intent |-> Str(res.intent)]

\* MessageHandler.handle that answers a silence of the resolver with the
\* intent-level reply
handle_resume_fallsBackToIntent(res) ==
    LET r == get_reply(res)
        fallback == get_reply_by_intent(res.intent)
    IN  IF Truthy(r)
        THEN [should_reply |-> TRUE, reply_text |-> r,
              matched_keyword |-> res.keyword, intent |-> Str(res.intent)]
        ELSE IF Truthy(fallback)
        THEN [should_reply |-> TRUE, reply_text |-> fallback,
              matched_keyword |-> None, intent |-> Str(res.intent)]
        ELSE [should_reply |-> FALSE, reply_text |-> None,
              matched_keyword |-> None, intent |-> Str(res.intent)]

\* MessageHandler.handle that reports the classifier's keyword also in a
\* silent decision
handle_resume_keywordOnSilence(res) ==
    LET r == get_reply(res)
    IN  IF Truthy(r)
        THEN [should_reply |-> TRUE, reply_text |-> r,
              matched_keyword |-> res.keyword, intent |-> Str(res.intent)]
        ELSE [should_reply |-> FALSE, reply_text |-> None,
              matched_keyword |-> res.keyword, intent |-> Str(res.intent)]

\* MessageHandler.handle that resolves the result kept in a field shared
\* by all calls (the one the classifier returned last, to any call)
\* instead of the result of its own await
handle_resume_sharedResult(res) ==
    LET r == get_reply(result)
    IN  IF Truthy(r)
        THEN [should_reply |-> TRUE, reply_text |-> r,
              matched_keyword |-> result.keyword,
              intent |-> Str(result.intent)]
        ELSE [should_reply |-> FALSE, reply_text |-> None,
              matched_keyword |-> None, intent |-> Str(result.intent)]

\* MessageHandler.handle after its await: the resolver on the classifier's
\* result
handle_resume(res) ==
    LET r == get_reply(res)
    IN  IF Truthy(r)
        THEN [should_reply |-> TRUE, reply_text |-> r,
              matched_keyword |-> res.keyword, intent |-> Str(res.intent)]
        ELSE [should_reply |-> FALSE, reply_text |-> None,
              matched_keyword |-> None, intent |-> Str(res.intent)]

----------------------------------------------------------------------------
(* bot.py *)

\* defaults of the parameters of _send_reply_with_retry; a delay is a
\* number of milliseconds (0.5 s = 500)
DEFAULT_MAX_RETRIES == 2
DEFAULT_RETRY_DELAY == 500

\* 2 ** n
RECURSIVE Pow2(_)
Pow2(n) == IF n = 0 THEN 1 ELSE 2 * Pow2(n - 1)

\* what a delivery does, in order: message.reply_text raised or returned,
\* asyncio.sleep(delay) was awaited, logger.error was called
SendFailed == [e |-> "send_failed", delay |-> 0]
SendOk == [e |-> "send_ok", delay |-> 0]
Sleep(d) == [e |-> "sleep", delay |-> d]
ErrorLogged == [e |-> "error_logged", delay |-> 0]

\* a wait that does not grow
backoff_constant(delay, a) == delay

\* delay = retry_delay * (2 ** attempt)
backoff(delay, a) == delay * Pow2(a)

\* a loop over range(max_retries)
loop_next_oneFewer(a, retries) ==
    IF a + 1 < retries
    THEN [dpc |-> "sending", attempt |-> a + 1, events |-> <<>>]
    ELSE [dpc |-> "failed", attempt |-> a, events |-> <<ErrorLogged>>]

\* the head of "for attempt in range(max_retries + 1)" after the pass with
\* attempt = a (a = -1: the loop is entered): the next pass, or the end of
\* the loop, the error log and the return
loop_next(a, retries) ==
    IF a + 1 < retries + 1
    THEN [dpc |-> "sending", attempt |-> a + 1, events |-> <<>>]
    ELSE [dpc |-> "failed", attempt |-> a, events |-> <<ErrorLogged>>]

\* a loop body without the return after a successful send
send_attempt_noReturn(a, retries, delay, ok) ==
    IF ok
    THEN [loop_next(a, retries) EXCEPT !.events = <<SendOk>> \o @]
    ELSE IF a < retries
    THEN [dpc |-> "sleeping", attempt |-> a,
          events |-> <<SendFailed, Sleep(backoff(delay, a))>>]
    ELSE [loop_next(a, retries) EXCEPT !.events = <<SendFailed>> \o @]

\* one pass of the loop body, up to its return, to its await of
\* asyncio.sleep, or to the end of the loop: message.reply_text returns
\* (ok) or raises an Exception
send_attempt(a, retries, delay, ok) ==
    IF ok
    THEN [dpc |-> "delivered", attempt |-> a, events |-> <<SendOk>>]
    ELSE IF a < retries
    THEN [dpc |-> "sleeping", attempt |-> a,
          events |-> <<SendFailed, Sleep(backoff(delay, a))>>]
    ELSE [loop_next(a, retries) EXCEPT !.events = <<SendFailed>> \o @]

\* _handle_message that sends whatever handle returned
after_handle_noCheck(d) == loop_next(-1, DEFAULT_MAX_RETRIES)

\* _handle_message after handle returned: the delivery is entered (with
\* the default parameters) for a decision with should_reply and a reply
\* text, otherwise the handler returns
after_handle(d) ==
    IF d.should_reply /\ Truthy(d.reply_text)
    THEN loop_next(-1, DEFAULT_MAX_RETRIES)
    ELSE [dpc |-> "done", attempt |-> 0, events |-> <<>>]

\* no task in flight
NoTasks == <<>>

\* a task of _handle_message that has not started: where handle is (pc),
\* where the handler is (dpc), the text of its update, what the remote
\* call did for it, what handle returned, and its delivery
IdleTask ==
    [pc |-> "idle", dpc |-> "idle", text |-> <<>>,
     remote |-> [call |-> "none",
                 content |-> [kind |-> "none", intent |-> JAbsent,
                              keyword |-> JAbsent, faq_id |-> JAbsent,
                              extra |-> FALSE]],
     decision |-> Silence, attempt |-> 0, events |-> <<>>]

\* an update: whether it has a message, and the text of the message
NoUpdate == [message |-> FALSE, text |-> None]

\* no update received, no delivery under way
NoDelivery ==
    /\ update = NoUpdate /\ dpc = "idle" /\ attempt = 0 /\ events = <<>>
    /\ max_retries = DEFAULT_MAX_RETRIES
    /\ retry_delay = DEFAULT_RETRY_DELAY

----------------------------------------------------------------------------
(* Inputs *)

Texts == SeqsUpTo(Chars, MaxTextLen)

KeywordPool == {<<>>, <<"a">>, <<"b">>, <<"a", "b">>}
KeywordReplyPool == {<<>>, <<"k">>}
KeywordEntries == [keyword : KeywordPool, reply : KeywordReplyPool]
KeywordDocs == SeqsUpTo(KeywordEntries, MaxKeywords)

\* configuration documents: the toggles, an intent list naming each tag of
\* IntentTagPool at most once, a keyword list of at most MaxRules rules and
\* a FAQ list naming each id of FaqDocIds at most once
IntentTagPool == <<Tag("TUTORIAL"), Tag("FAQ"), Tag("IGNORE"), Tag("tutorial")>>
IntentReplyPool == {<<>>, <<"i">>}
FaqDocIds == <<<<"f">>>>
FaqAnswerPool == {<<>>, <<"q">>}
BotSections == [keyword_reply_enabled : BOOLEAN, ai_reply_enabled : BOOLEAN]

\* the lists with at most one entry {tag, reply} for each of the first n tags
RECURSIVE IntentDocs(_)
IntentDocs(n) ==
    IF n = 0 THEN {<<>>}
    ELSE LET shorter == IntentDocs(n - 1)
         IN  shorter
             \cup {Append(l, [tag |-> IntentTagPool[n], reply |-> r]) :
                      l \in shorter, r \in IntentReplyPool}

\* the lists with at most one entry {faq_id, answer} for each of the first
\* n ids
RECURSIVE FaqDocs(_)
FaqDocs(n) ==
    IF n = 0 THEN {<<>>}
    ELSE LET shorter == FaqDocs(n - 1)
         IN  shorter
             \cup {Append(l, [faq_id |-> FaqDocIds[n], answer |-> a]) :
                      l \in shorter, a \in FaqAnswerPool}

Docs ==
    [bot : BotSections,
     intents : IntentDocs(Len(IntentTagPool)),
     keywords : SeqsUpTo(KeywordEntries, MaxRules),
     faq : FaqDocs(Len(FaqDocIds))]

\* the store after ConfigStore().load(doc) returned
Loaded(doc) ==
    LET l == load(doc)
    IN  /\ l.ok
        /\ document = doc
        /\ bot_config = l.bot_config
        /\ intents = l.intents /\ intent_reply_map = l.intent_reply_map
        /\ keywords = l.keywords /\ keyword_reply_map = l.keyword_reply_map
        /\ faqs = l.faqs /\ faq_reply_map = l.faq_reply_map

\* classification results
OptKeywords == {None} \cup {Str(k) : k \in KeywordPool}
FaqIdPool == {<<>>, <<"f">>, <<"g">>}
OptFaqIds == {None} \cup {Str(f) : f \in FaqIdPool}
ClassifyResults ==
    [intent : VALID_INTENT_TAGS, keyword : OptKeywords, faq_id : OptFaqIds]

NoDecision == Silence
NoResult == IgnoreResult
NoRemote == [call |-> "none", content |-> NoContent]

\* what the remote call can do
JsonIntents ==
    {JAbsent, None, Num}
    \cup {Str(tag) : tag \in VALID_INTENT_TAGS \cup {Tag("tutorial"), <<>>}}
JsonKeywords == {JAbsent, Num} \cup OptKeywords
JsonFaqIds == {JAbsent, Num} \cup OptFaqIds
Payloads(jintents, jkeywords, jfaqs, jextras) ==
    {EmptyText,
     [EmptyText EXCEPT !.kind = "too_deep"],
     [EmptyText EXCEPT !.kind = "nondict"]}
    \cup [kind : {"dict"}, intent : jintents, keyword : jkeywords,
          faq_id : jfaqs, extra : jextras]
Outcomes(payloads) ==
    [call : {"config_error", "api_error", "timeout", "no_choices"},
     content : {NoContent}]
    \cup [call : {"response"}, content : {NoContent} \cup payloads]
RemoteOutcomes ==
    Outcomes(Payloads(JsonIntents, JsonKeywords, JsonFaqIds, BOOLEAN))
Messages == SeqsUpTo(Chars, MaxMsgLen)
\* what the remote call does for a message in the pipeline
PipelineOutcomes ==
    Outcomes(Payloads({Str(Tag("TUTORIAL")), Str(Tag("IGNORE")),
                       Str(Tag("FAQ"))},
                      {None, Str(<<"a">>)}, {None, Str(<<"f">>)}, {FALSE}))

----------------------------------------------------------------------------
(* KeywordMatcher on its own: a matcher built from a loaded keyword list,  *)
(* applied to one text.                                                    *)

InitMatch ==
    /\ \E doc \in KeywordDocs :
          /\ parse_keywords(doc).ok
          /\ keywords = parse_keywords(doc).list
          /\ keyword_reply_map = parse_keywords(doc).map
          /\ document = [NoDocument EXCEPT !.keywords = doc]
    /\ bot_config = [loaded |-> FALSE, keyword_reply_enabled |-> TRUE,
                     ai_reply_enabled |-> TRUE]
    /\ intents = <<>> /\ faqs = <<>>
    /\ intent_reply_map = EmptyMap /\ faq_reply_map = EmptyMap
    /\ pc = "idle" /\ text = <<>> /\ matched = None
    /\ remote = NoRemote /\ result = NoResult /\ raised = FALSE
    /\ reply = None /\ decision = NoDecision
    /\ matcher_calls = 0 /\ classifier_calls = 0
    /\ classify_text = None /\ NoDelivery
    /\ tasks = NoTasks

MatchCall(t) ==
    /\ pc = "idle"
    /\ pc' = "returned"
    /\ text' = t
    /\ matched' = match(keywords, t)
    /\ matcher_calls' = matcher_calls + 1
    /\ UNCHANGED <<store, document, tasks, remote, result, raised, reply, decision,
                   classifier_calls, classify_text, delivery>>

NextMatch == \E t \in Texts : MatchCall(t)

SpecMatch == InitMatch /\ [][NextMatch]_vars

----------------------------------------------------------------------------
(* The pipeline: one message handled by MessageHandler.handle over a       *)
(* loaded store.                                                           *)

Init ==
    /\ \E doc \in Docs : Loaded(doc)
    /\ pc = "idle" /\ text = <<>> /\ matched = None
    /\ remote = NoRemote /\ result = NoResult /\ raised = FALSE
    /\ reply = None /\ decision = NoDecision
    /\ matcher_calls = 0 /\ classifier_calls = 0
    /\ classify_text = None /\ NoDelivery
    /\ tasks = NoTasks

\* handle(text) runs up to its return or to its await
Handle(t) ==
    /\ pc = "idle"
    /\ text' = t
    /\ LET h == handle_sync(t)
       IN  /\ pc' = h.pc
           /\ decision' = h.decision
           /\ matched' = h.matched
           /\ matcher_calls' = matcher_calls + h.matcher_calls
           /\ classifier_calls' = classifier_calls + h.classifier_calls
           /\ classify_text' = h.classify_text
    /\ UNCHANGED <<store, document, tasks, remote, result, raised, reply, delivery>>

\* the classifier returns and handle runs to its return
HandleResume(rem) ==
    /\ pc = "classifying"
    /\ remote' = rem
    /\ LET returned == classify(rem)
       IN  /\ raised' = returned.raised
           /\ result' = returned.value
           /\ IF returned.raised
              THEN pc' = "raised" /\ UNCHANGED <<reply, decision>>
              ELSE /\ pc' = "returned"
                   /\ reply' = get_reply(returned.value)
                   /\ decision' = handle_resume(returned.value)
    /\ UNCHANGED <<store, document, tasks, text, matched, matcher_calls, classifier_calls,
                   classify_text, delivery>>

Next ==
    \/ \E t \in Messages : Handle(t)
    \/ \E rem \in PipelineOutcomes : HandleResume(rem)

Spec == Init /\ [][Next]_vars

\* handle has been called with the message text
Handling == pc # "idle"
IsSilence == ~decision.should_reply /\ decision.reply_text = None
NoPortInvoked == matcher_calls = 0 /\ classifier_calls = 0

\* C1 as stated: a text whose trimmed length is less than 2, or that begins
\* with "/", is answered with silence and reaches neither the matcher nor
\* the classifier.
C1_FilterTrimmed_Original ==
    (Handling /\ (Len(strip(text)) < 2 \/ startswith(text, <<"/">>)))
        => (pc = "returned" /\ IsSilence /\ NoPortInvoked)

\* C1: a text whose length is less than 2 characters (whitespace counted),
\* or that begins with "/", is answered with silence and reaches neither
\* the matcher nor the classifier, whatever the toggles and tables are.
C1_Filter ==
    (Handling /\ (Len(text) < 2 \/ startswith(text, <<"/">>)))
        => (pc = "returned" /\ IsSilence /\ NoPortInvoked)

C1_Witness ==
    /\ pc = "returned" /\ text = <<"/", "a">>
    /\ bot_config.keyword_reply_enabled /\ bot_config.ai_reply_enabled
    /\ <<"a">> \in DOMAIN keyword_reply_map
    /\ IsSilence /\ NoPortInvoked

\* C2: with keywordReplyEnabled on, when the matcher finds a keyword in a
\* message that passed the filter, handle returns shouldReply true, the
\* reply of that keyword in the keyword table and that keyword as
\* matchedKeyword, and the classifier is never invoked for the message,
\* whether aiReplyEnabled is on or off.
C2_KeywordShortCircuit ==
    (Handling /\ bot_config.keyword_reply_enabled
     /\ ~should_ignore_message(text)
     /\ \E i \in 1..Len(keywords) : contains(text, keywords[i].keyword))
        => /\ pc = "returned"
           /\ matched.t = "str"
           /\ \E i \in 1..Len(keywords) : keywords[i].keyword = matched.v
           /\ decision.should_reply
           /\ decision.reply_text = Str(keyword_reply_map[matched.v])
           /\ decision.matched_keyword = matched
           /\ classifier_calls = 0

C2_Witness ==
    /\ pc = "returned"
    /\ bot_config.keyword_reply_enabled /\ bot_config.ai_reply_enabled
    /\ matched = Str(<<"a">>)
    /\ decision.should_reply /\ decision.reply_text = Str(<<"k">>)
    /\ decision.matched_keyword = Str(<<"a">>)
    /\ Tag("TUTORIAL") \in DOMAIN intent_reply_map
    /\ classifier_calls = 0 /\ matcher_calls = 1

\* C3: with both toggles off handle returns silence for every text and
\* never invokes the matcher or the classifier.
C3_BothOffSilent ==
    (Handling /\ ~bot_config.keyword_reply_enabled
     /\ ~bot_config.ai_reply_enabled)
        => (pc = "returned" /\ IsSilence /\ NoPortInvoked)

C3_Witness ==
    /\ pc = "returned"
    /\ ~bot_config.keyword_reply_enabled /\ ~bot_config.ai_reply_enabled
    /\ ~should_ignore_message(text)
    /\ \E i \in 1..Len(keywords) : contains(text, keywords[i].keyword)
    /\ IsSilence /\ NoPortInvoked

----------------------------------------------------------------------------
(* IntentClassifier on its own: one classify call over a loaded store; the *)
(* remote call ends in any of RemoteOutcomes.                              *)

InitClassify ==
    /\ \E doc \in Docs :
          /\ doc.bot.ai_reply_enabled
          /\ doc.intents = <<>> /\ doc.keywords = <<>> /\ doc.faq = <<>>
          /\ Loaded(doc)
    /\ pc = "idle" /\ text = <<>> /\ matched = None
    /\ remote = NoRemote /\ result = NoResult /\ raised = FALSE
    /\ reply = None /\ decision = NoDecision
    /\ matcher_calls = 0 /\ classifier_calls = 0
    /\ classify_text = None /\ NoDelivery
    /\ tasks = NoTasks

\* classify is entered: the configuration is read and the request is sent
ClassifyCall(message) ==
    /\ pc = "idle"
    /\ pc' = "awaiting"
    /\ text' = message
    /\ classifier_calls' = classifier_calls + 1
    /\ classify_text' = Str(message)
    /\ UNCHANGED <<store, document, tasks, matched, remote, result, raised, reply, decision,
                   matcher_calls, delivery>>

\* the remote call ends and classify returns
ClassifyReturn(rem) ==
    /\ pc = "awaiting"
    /\ pc' = "returned"
    /\ remote' = rem
    /\ LET returned == classify(rem)
       IN  result' = returned.value /\ raised' = returned.raised
    /\ UNCHANGED <<store, document, tasks, text, matched, reply, decision, matcher_calls,
                   classifier_calls, classify_text, delivery>>

NextClassify ==
    \/ \E message \in Messages : ClassifyCall(message)
    \/ \E rem \in RemoteOutcomes : ClassifyReturn(rem)

SpecClassify == InitClassify /\ [][NextClassify]_vars

\* the remote call delivered an object
GotRecord == remote.call = "response" /\ remote.content.kind = "dict"
\* the remote call failed: it raised, the configuration could not be read,
\* or the payload is malformed (no object with a valid intent tag)
RemoteFailed ==
    \/ ~GotRecord
    \/ remote.content.intent.t # "str"
    \/ remote.content.intent.v \notin VALID_INTENT_TAGS
\* the remote call delivered a valid result
RemoteValid ==
    /\ GotRecord
    /\ remote.content.intent.t = "str"
    /\ remote.content.intent.v \in VALID_INTENT_TAGS
    /\ remote.content.keyword.t \in {"absent", "none", "str"}
    /\ remote.content.faq_id.t \in {"absent", "none", "str"}
OptionalOf(value) == IF value.t = "str" THEN value ELSE None

\* C4 as stated: classify never raises; every failure of the remote call
\* gives {intent: IGNORE, keyword: none, faq_id: none}; a valid result is
\* returned unchanged.
C4_ClassifyTotal ==
    pc = "returned" =>
        /\ ~raised
        /\ RemoteFailed => result = IgnoreResult
        /\ RemoteValid =>
              result = [intent |-> remote.content.intent.v,
                        keyword |-> OptionalOf(remote.content.keyword),
                        faq_id |-> OptionalOf(remote.content.faq_id)]

\* what holds of classify: it never raises, every failure gives intent
\* IGNORE, and a valid result is returned unchanged
ClassifyDegradesToIgnore ==
    pc = "returned" =>
        /\ ~raised
        /\ RemoteFailed => result.intent = Tag("IGNORE")
        /\ (RemoteFailed /\ ~(GotRecord /\ remote.content.intent = JAbsent))
              => result = IgnoreResult
        /\ RemoteValid =>
              result = [intent |-> remote.content.intent.v,
                        keyword |-> OptionalOf(remote.content.keyword),
                        faq_id |-> OptionalOf(remote.content.faq_id)]

----------------------------------------------------------------------------
(* ReplyManager on its own: a resolver over a loaded store, applied to one *)
(* classification result.                                                  *)

InitResolver ==
    /\ \E doc \in Docs :
          /\ doc.bot.keyword_reply_enabled /\ doc.bot.ai_reply_enabled
          /\ Loaded(doc)
    /\ pc = "idle" /\ text = <<>> /\ matched = None
    /\ remote = NoRemote /\ result = NoResult /\ raised = FALSE
    /\ reply = None /\ decision = NoDecision
    /\ matcher_calls = 0 /\ classifier_calls = 0
    /\ classify_text = None /\ NoDelivery
    /\ tasks = NoTasks

GetReplyCall(res) ==
    /\ pc = "idle"
    /\ pc' = "returned"
    /\ result' = res
    /\ reply' = get_reply(res)
    /\ UNCHANGED <<store, document, tasks, text, matched, remote, raised, decision,
                   matcher_calls, classifier_calls, classify_text, delivery>>

NextResolver == \E res \in ClassifyResults : GetReplyCall(res)

SpecResolver == InitResolver /\ [][NextResolver]_vars

KeywordConfigured == result.keyword.t = "str"
                     /\ result.keyword.v \in DOMAIN keyword_reply_map
FaqConfigured == result.faq_id.t = "str"
                 /\ result.faq_id.v \in DOMAIN faq_reply_map
\* the result is decided by the FAQ rules of get_reply
FaqDecided == result.intent = Tag("FAQ") /\ Truthy(result.faq_id)

\* C5: a result whose intent is IGNORE resolves to silence, whatever its
\* keyword and faq_id are.
C5_IgnoreIsSilent ==
    (pc = "returned" /\ result.intent = Tag("IGNORE")) => reply = None

C5_Witness ==
    /\ pc = "returned" /\ result.intent = Tag("IGNORE")
    /\ KeywordConfigured /\ FaqConfigured
    /\ Tag("IGNORE") \in DOMAIN intent_reply_map
    /\ reply = None

\* C6: intent FAQ with a faq_id that is a key of the FAQ table resolves to
\* exactly that entry's answer, also when the keyword is configured and an
\* intent-level reply for FAQ exists.
C6_FaqAnswer ==
    (pc = "returned" /\ result.intent = Tag("FAQ") /\ FaqConfigured)
        => reply = Str(faq_reply_map[result.faq_id.v])

C6_Witness ==
    /\ pc = "returned" /\ result.intent = Tag("FAQ") /\ FaqConfigured
    /\ KeywordConfigured
    /\ Tag("FAQ") \in DOMAIN intent_reply_map
    /\ reply = Str(faq_reply_map[result.faq_id.v])
    /\ reply # Str(keyword_reply_map[result.keyword.v])
    /\ reply # Str(intent_reply_map[Tag("FAQ")])

C8_KeywordOverIntent ==
    (pc = "returned" /\ Truthy(result.keyword) /\ KeywordConfigured
     /\ result.intent # Tag("IGNORE") /\ ~FaqDecided)
        => reply = Str(keyword_reply_map[result.keyword.v])

C8_Witness ==
    /\ pc = "returned" /\ Truthy(result.keyword) /\ KeywordConfigured
    /\ result.intent = Tag("TUTORIAL")
    /\ Tag("TUTORIAL") \in DOMAIN intent_reply_map
    /\ reply = Str(keyword_reply_map[result.keyword.v])
    /\ reply # Str(intent_reply_map[Tag("TUTORIAL")])

\* C9: an intent other than IGNORE, a result not decided by the FAQ rules
\* and a keyword that is absent or not a key of the keyword table resolve
\* to the intent's reply in the intent table, and to silence when the
\* intent table has no entry for the intent.
C9_IntentReply ==
    (pc = "returned" /\ result.intent # Tag("IGNORE") /\ ~FaqDecided
     /\ ~KeywordConfigured)
        => reply = IF result.intent \in DOMAIN intent_reply_map
                   THEN Str(intent_reply_map[result.intent])
                   ELSE None

C9_Witness ==
    /\ pc = "returned" /\ result.intent = Tag("TUTORIAL")
    /\ Truthy(result.keyword) /\ ~KeywordConfigured
    /\ keyword_reply_map # EmptyMap
    /\ reply = Str(<<"i">>)

----------------------------------------------------------------------------
(* C10 *)

\* the keyword of rule i occurs somewhere in the text
Occurs(i) ==
    \E lo \in 1..(Len(text) + 1), hi \in 0..Len(text) :
        SubSeq(text, lo, hi) = keywords[i].keyword

\* C10: match returns the earliest keyword in configuration order that
\* occurs as a substring of the text, and returns empty exactly when no
\* configured keyword occurs in the text (so also for an empty keyword list
\* and for an empty text).
C10_MatchEarliestConfigured ==
    pc = "returned" =>
        /\ (matched = None) <=> ~(\E i \in 1..Len(keywords) : Occurs(i))
        /\ matched # None =>
              \E i \in 1..Len(keywords) :
                  /\ matched = Str(keywords[i].keyword)
                  /\ Occurs(i)
                  /\ \A j \in 1..(i - 1) : ~Occurs(j)
        /\ (keywords = <<>> \/ text = <<>>) => matched = None

\* two different configured keywords occur, the later-configured one
\* earlier in the text, and the first-configured one is returned
C10_Witness ==
    /\ pc = "returned"
    /\ Len(keywords) = 2
    /\ keywords[1].keyword = <<"b">> /\ keywords[2].keyword = <<"a">>
    /\ text = <<"a", "b">>
    /\ matched = Str(<<"b">>)

----------------------------------------------------------------------------
(* LLMClient._parse_response on its own: the parser applied to one         *)
(* response text.                                                          *)

ResponseTexts == Payloads(JsonIntents, JsonKeywords, JsonFaqIds, BOOLEAN)

InitParse ==
    /\ \E doc \in Docs :
          /\ doc.bot.keyword_reply_enabled /\ doc.bot.ai_reply_enabled
          /\ doc.intents = <<>> /\ doc.keywords = <<>> /\ doc.faq = <<>>
          /\ Loaded(doc)
    /\ pc = "idle" /\ text = <<>> /\ matched = None
    /\ remote = NoRemote /\ result = NoResult /\ raised = FALSE
    /\ reply = None /\ decision = NoDecision
    /\ matcher_calls = 0 /\ classifier_calls = 0
    /\ classify_text = None /\ NoDelivery
    /\ tasks = NoTasks

\* _parse_response(response_text) returns or raises
ParseCall(response_text) ==
    /\ pc = "idle"
    /\ remote' = [call |-> "response", content |-> response_text]
    /\ LET parsed == parse_response(response_text)
       IN  /\ pc' = IF parsed.raised THEN "raised" ELSE "returned"
           /\ raised' = parsed.raised
           /\ result' = parsed.value
    /\ UNCHANGED <<store, document, tasks, text, matched, reply, decision, matcher_calls,
                   classifier_calls, classify_text, delivery>>

NextParse == \E response_text \in ResponseTexts : ParseCall(response_text)

SpecParse == InitParse /\ [][NextParse]_vars

\* the parser was applied to remote.content
Parsed == pc # "idle"
\* the response text is no object, or the object has no intent, an intent
\* that is not text, or an intent that is none of the five tags
Malformed ==
    \/ remote.content.kind # "dict"
    \/ remote.content.intent = JAbsent
    \/ remote.content.intent.t # "str"
    \/ remote.content.intent.v \notin VALID_INTENT_TAGS
\* the response text is an object with one of the five tags as intent
ValidIntent ==
    /\ remote.content.kind = "dict"
    /\ remote.content.intent.t = "str"
    /\ remote.content.intent.v \in VALID_INTENT_TAGS

\* C11 as stated: for every response text the parser returns a result,
\* raises no exception, and the intent of the result is one of the five
\* valid tags.
C11_ParseTotal ==
    Parsed => (pc = "returned" /\ ~raised
               /\ result.intent \in VALID_INTENT_TAGS)

\* what holds of the parser: unless json.loads fails with an error other
\* than JSONDecodeError, it returns a result with one of the five tags
ParseTotalUnlessTooDeep ==
    (Parsed /\ remote.content.kind # "too_deep")
        => (pc = "returned" /\ ~raised
            /\ result.intent \in VALID_INTENT_TAGS)

\* C12 as stated: a response text that is no single object, or whose intent
\* is missing, not text, or none of the five tags, is parsed to intent
\* IGNORE with no keyword and no faq_id (whenever the parser returns at
\* all: a text on which it raises is the case of C11).
C12_MalformedIsBareIgnore ==
    (pc = "returned" /\ Malformed) => result = IgnoreResult

\* C13: for an object with a valid intent the parser returns the intent of
\* the object, each of keyword and faq_id unchanged when it is text and
\* absent when it is missing, null or not text, whatever other fields the
\* object has; the record is never rejected.
C13_WrongTypeDiscarded ==
    (Parsed /\ ValidIntent)
        => /\ pc = "returned" /\ ~raised
           /\ result = [intent |-> remote.content.intent.v,
                        keyword |-> OptionalOf(remote.content.keyword),
                        faq_id |-> OptionalOf(remote.content.faq_id)]

C13_Witness ==
    /\ pc = "returned"
    /\ remote.content = [kind |-> "dict", intent |-> Str(Tag("FAQ")),
                         keyword |-> Num, faq_id |-> Str(<<"f">>),
                         extra |-> TRUE]
    /\ result = [intent |-> Tag("FAQ"), keyword |-> None,
                 faq_id |-> Str(<<"f">>)]

----------------------------------------------------------------------------
(* TelegramBot._send_reply_with_retry on its own: one delivery of a reply, *)
(* every call of message.reply_text returning or raising an Exception.     *)

MaxRetries == 3        \* largest max_retries given to a delivery

RetryDelays == {DEFAULT_RETRY_DELAY, 300}
\* decisions handed to a delivery
DeliverDecisions ==
    {[should_reply |-> TRUE, reply_text |-> Str(<<"k">>),
      matched_keyword |-> Str(<<"a">>), intent |-> None],
     [should_reply |-> TRUE, reply_text |-> Str(<<"i">>),
      matched_keyword |-> None, intent |-> Str(Tag("TUTORIAL"))],
     [should_reply |-> TRUE, reply_text |-> Str(<<"q">>),
      matched_keyword |-> None, intent |-> Str(Tag("FAQ"))]}

InitDeliver ==
    /\ \E doc \in Docs :
          /\ doc.bot.keyword_reply_enabled /\ doc.bot.ai_reply_enabled
          /\ doc.intents = <<>> /\ doc.keywords = <<>> /\ doc.faq = <<>>
          /\ Loaded(doc)
    /\ pc = "idle" /\ text = <<>> /\ matched = None
    /\ remote = NoRemote /\ result = NoResult /\ raised = FALSE
    /\ reply = None /\ decision = NoDecision
    /\ matcher_calls = 0 /\ classifier_calls = 0
    /\ classify_text = None /\ NoDelivery
    /\ tasks = NoTasks

\* _send_reply_with_retry is called and runs to its first reply_text call
DeliverCall(d, retries, delay) ==
    /\ dpc = "idle"
    /\ decision' = d
    /\ max_retries' = retries
    /\ retry_delay' = delay
    /\ LET n == loop_next(-1, retries)
       IN  /\ dpc' = n.dpc
           /\ attempt' = n.attempt
           /\ events' = events \o n.events
    /\ UNCHANGED <<store, document, tasks, pc, text, matched, remote, result, raised, reply,
                   matcher_calls, classifier_calls, classify_text, update>>

\* message.reply_text returns
SendSucceeds ==
    /\ dpc = "sending"
    /\ LET n == send_attempt(attempt, max_retries, retry_delay, TRUE)
       IN  /\ dpc' = n.dpc
           /\ attempt' = n.attempt
           /\ events' = events \o n.events
    /\ UNCHANGED <<store, document, tasks, pc, text, matched, remote, result, raised, reply,
                   decision, matcher_calls, classifier_calls, classify_text,
                   update, max_retries, retry_delay>>

\* message.reply_text raises an Exception
SendFails ==
    /\ dpc = "sending"
    /\ LET n == send_attempt(attempt, max_retries, retry_delay, FALSE)
       IN  /\ dpc' = n.dpc
           /\ attempt' = n.attempt
           /\ events' = events \o n.events
    /\ UNCHANGED <<store, document, tasks, pc, text, matched, remote, result, raised, reply,
                   decision, matcher_calls, classifier_calls, classify_text,
                   update, max_retries, retry_delay>>

\* asyncio.sleep returns and the loop goes on
Wake ==
    /\ dpc = "sleeping"
    /\ LET n == loop_next(attempt, max_retries)
       IN  /\ dpc' = n.dpc
           /\ attempt' = n.attempt
           /\ events' = events \o n.events
    /\ UNCHANGED <<store, document, tasks, pc, text, matched, remote, result, raised, reply,
                   decision, matcher_calls, classifier_calls, classify_text,
                   update, max_retries, retry_delay>>

NextDeliver ==
    \/ \E d \in DeliverDecisions, retries \in 0..MaxRetries,
          delay \in RetryDelays : DeliverCall(d, retries, delay)
    \/ SendSucceeds
    \/ SendFails
    \/ Wake

SpecDeliver == InitDeliver /\ [][NextDeliver]_vars

\* number of events of one kind, number of reply_text calls, number of
\* failed calls before position p of the log
Count(e) == Cardinality({p \in 1..Len(events) : events[p].e = e})
Attempts == Count("send_failed") + Count("send_ok")
FailuresBefore(p) ==
    Cardinality({q \in 1..(p - 1) : events[q].e = "send_failed"})
\* the delivery has returned
Delivered == dpc \in {"delivered", "failed"}

\* C14: a delivery never makes more than max_retries + 1 attempts; when
\* every attempt fails it makes exactly max_retries + 1 of them (3 with the
\* default 2) and then ends: the failure is logged once, as the last thing
\* the delivery does, nothing more can happen, and no exception reaches
\* the caller.
C14_AllAttemptsFail ==
    /\ Attempts <= max_retries + 1
    /\ ~raised
    /\ (Count("send_ok") = 0 /\ Count("send_failed") = max_retries + 1)
          => /\ dpc = "failed"
             /\ events[Len(events)] = ErrorLogged
             /\ Count("error_logged") = 1
    /\ dpc = "failed"
          => /\ Count("send_ok") = 0
             /\ Count("send_failed") = max_retries + 1
    /\ Delivered => ~ENABLED (SendSucceeds \/ SendFails \/ Wake)

C14_Witness ==
    /\ dpc = "failed"
    /\ max_retries = DEFAULT_MAX_RETRIES
    /\ Count("send_failed") = 3 /\ Attempts = 3
    /\ events[Len(events)] = ErrorLogged

\* C15: a successful attempt is the last thing a delivery does: after k
\* failed attempts (k <= max_retries) and a success exactly k + 1 attempts
\* were made, nothing follows the success and no error is logged or
\* raised; with the default max_retries = 2, two failures and a success
\* are 3 attempts.
C15_StopsAtFirstSuccess ==
    \A p \in 1..Len(events) :
        events[p] = SendOk
            => /\ p = Len(events)
               /\ dpc = "delivered"
               /\ FailuresBefore(p) <= max_retries
               /\ Attempts = FailuresBefore(p) + 1
               /\ Count("error_logged") = 0
               /\ ~raised

C15_Witness ==
    /\ dpc = "delivered"
    /\ max_retries = DEFAULT_MAX_RETRIES
    /\ Count("send_failed") = 2 /\ Count("send_ok") = 1
    /\ events[Len(events)] = SendOk

\* C16: the failed attempt with index i < max_retries is followed by one
\* wait of retry_delay * 2^i and then by the next attempt (500 ms, then
\* 1000 ms with the defaults); nothing waits after a successful attempt or
\* after the failed attempt with index max_retries, and every attempt but
\* the first comes after a wait.
C16_BackoffDoubles ==
    \A p \in 1..Len(events) :
        /\ events[p].e = "sleep"
              => /\ p > 1
                 /\ events[p - 1] = SendFailed
                 /\ FailuresBefore(p) - 1 < max_retries
                 /\ events[p].delay
                       = retry_delay * 2^(FailuresBefore(p) - 1)
        /\ (events[p] = SendFailed /\ FailuresBefore(p) < max_retries)
              => (p < Len(events) /\ events[p + 1].e = "sleep")
        /\ (events[p] = SendFailed /\ FailuresBefore(p) >= max_retries
            /\ p < Len(events))
              => events[p + 1].e # "sleep"
        /\ (events[p] = SendOk /\ p < Len(events))
              => events[p + 1].e # "sleep"
        /\ (events[p].e \in {"send_failed", "send_ok"} /\ p > 1)
              => events[p - 1].e = "sleep"

C16_Witness ==
    /\ dpc = "failed"
    /\ max_retries = DEFAULT_MAX_RETRIES
    /\ retry_delay = DEFAULT_RETRY_DELAY
    /\ events = <<SendFailed, Sleep(DEFAULT_RETRY_DELAY),
                  SendFailed, Sleep(2 * DEFAULT_RETRY_DELAY),
                  SendFailed, ErrorLogged>>

----------------------------------------------------------------------------
(* TelegramBot._handle_message: one update is received, the text of its    *)
(* message is handled, and a non-silent decision is delivered (with the    *)
(* default max_retries and retry_delay).                                   *)

\* updates: without a message, with a message without text, with a text
Updates ==
    {NoUpdate, [message |-> TRUE, text |-> None]}
    \cup {[message |-> TRUE, text |-> Str(t)] : t \in Messages}
\* what the remote call does for a message of an update
BotOutcomes ==
    Outcomes(Payloads({Str(Tag("TUTORIAL")), Str(Tag("IGNORE")),
                       Str(Tag("tutorial")), Num, JAbsent},
                      {None, Str(<<"a">>)}, {None}, {FALSE}))

\* the update is received; handle runs up to its return or to its await
BotReceive(u) ==
    /\ dpc = "idle" /\ pc = "idle"
    /\ update' = u
    /\ IF ~u.message \/ ~Truthy(u.text)
       THEN /\ dpc' = "done"
            /\ UNCHANGED <<pc, text, decision, matched, matcher_calls,
                           classifier_calls, classify_text, attempt, events>>
       ELSE LET h == handle_sync(u.text.v)
                n == IF h.pc = "returned"
                     THEN after_handle(h.decision)
                     ELSE [dpc |-> "handling", attempt |-> 0,
                           events |-> <<>>]
            IN  /\ text' = u.text.v
                /\ pc' = h.pc
                /\ decision' = h.decision
                /\ matched' = h.matched
                /\ matcher_calls' = matcher_calls + h.matcher_calls
                /\ classifier_calls' = classifier_calls + h.classifier_calls
                /\ classify_text' = h.classify_text
                /\ dpc' = n.dpc
                /\ attempt' = n.attempt
                /\ events' = events \o n.events
    /\ UNCHANGED <<store, document, tasks, remote, result, raised, reply, max_retries,
                   retry_delay>>

\* the classifier returns, handle runs to its return and the handler goes
\* on to the delivery or returns
BotResume(rem) ==
    /\ dpc = "handling" /\ pc = "classifying"
    /\ remote' = rem
    /\ LET returned == classify(rem)
           d == handle_resume(returned.value)
           n == after_handle(d)
       IN  /\ raised' = returned.raised
           /\ result' = returned.value
           /\ IF returned.raised
              THEN /\ pc' = "raised" /\ dpc' = "raised"
                   /\ UNCHANGED <<reply, decision, attempt, events>>
              ELSE /\ pc' = "returned"
                   /\ reply' = get_reply(returned.value)
                   /\ decision' = d
                   /\ dpc' = n.dpc
                   /\ attempt' = n.attempt
                   /\ events' = events \o n.events
    /\ UNCHANGED <<store, document, tasks, text, matched, matcher_calls, classifier_calls,
                   classify_text, update, max_retries, retry_delay>>

NextBot ==
    \/ \E u \in Updates : BotReceive(u)
    \/ \E rem \in BotOutcomes : BotResume(rem)
    \/ SendSucceeds
    \/ SendFails
    \/ Wake

SpecBot == Init /\ [][NextBot]_vars

\* the update carries a text
HasText == update.message /\ Truthy(update.text)
\* reply_text was called, or is about to be called
SendAttempted ==
    events # <<>> \/ dpc \in {"sending", "sleeping", "delivered", "failed"}

\* C17: a send is attempted only when handle has returned, for the text of
\* the update, a decision with should_reply and a reply text; no send is
\* attempted for an update without text (handle is not even called), for a
\* filtered text, with both toggles off, or when the resolver returned
\* silence.
C17_SendOnlyAfterNonSilentDecision ==
    /\ SendAttempted
          => /\ HasText /\ text = update.text.v
             /\ pc = "returned"
             /\ decision.should_reply /\ Truthy(decision.reply_text)
    /\ (dpc # "idle" /\ ~HasText) => (~SendAttempted /\ pc = "idle")
    /\ (dpc # "idle" /\ HasText /\ should_ignore_message(text))
          => ~SendAttempted
    /\ (~bot_config.keyword_reply_enabled /\ ~bot_config.ai_reply_enabled)
          => ~SendAttempted
    /\ (pc = "returned" /\ classifier_calls = 1 /\ reply = None)
          => ~SendAttempted
    /\ (pc = "returned" /\ IsSilence) => ~SendAttempted

C17_Witness ==
    /\ dpc = "done" /\ pc = "returned"
    /\ HasText /\ ~should_ignore_message(text)
    /\ bot_config.ai_reply_enabled
    /\ classifier_calls = 1
    /\ result.intent = Tag("TUTORIAL") /\ reply = None
    /\ IsSilence /\ ~SendAttempted

\* a delivery that follows a decision of handle
C17_SendWitness ==
    /\ dpc = "delivered" /\ pc = "returned"
    /\ decision.should_reply /\ Truthy(decision.reply_text)
    /\ Attempts = 2

----------------------------------------------------------------------------
(* The pipeline: the phases of handle *)

\* some configured keyword occurs in the text
KeywordOccurs ==
    \E i \in 1..Len(keywords) : contains(text, keywords[i].keyword)
\* the classification phase ran and the resolver was applied to its result
Classified == pc = "returned" /\ classifier_calls = 1

\* C18: the matcher is never invoked while keywordReplyEnabled is off, and
\* the classifier is never invoked while aiReplyEnabled is off, whatever
\* the message is.
C18_ToggleOffPhaseSkipped ==
    /\ ~bot_config.keyword_reply_enabled
          => (matcher_calls = 0 /\ matched = None)
    /\ ~bot_config.ai_reply_enabled
          => (classifier_calls = 0 /\ classify_text = None
              /\ pc # "classifying")

C18_Witness ==
    /\ pc = "returned"
    /\ ~bot_config.keyword_reply_enabled /\ bot_config.ai_reply_enabled
    /\ ~should_ignore_message(text) /\ KeywordOccurs
    /\ matcher_calls = 0 /\ classifier_calls = 1

C18_WitnessAiOff ==
    /\ pc = "returned"
    /\ bot_config.keyword_reply_enabled /\ ~bot_config.ai_reply_enabled
    /\ ~should_ignore_message(text) /\ ~KeywordOccurs
    /\ matcher_calls = 1 /\ classifier_calls = 0

\* C19: with aiReplyEnabled on, for a text that passed the filter and for
\* which the keyword phase gave no reply (keyword toggle off, or no
\* configured keyword occurs in the text), handle invokes the classifier
\* exactly once, with the text as it was given to handle.
C19_ClassifierCalledOnce ==
    (Handling /\ bot_config.ai_reply_enabled
     /\ ~should_ignore_message(text)
     /\ (~bot_config.keyword_reply_enabled \/ ~KeywordOccurs))
        => /\ pc \in {"classifying", "returned"}
           /\ classifier_calls = 1
           /\ classify_text = Str(text)

C19_Witness ==
    /\ pc = "returned"
    /\ bot_config.keyword_reply_enabled /\ bot_config.ai_reply_enabled
    /\ keywords # <<>> /\ ~KeywordOccurs
    /\ text = <<"b", " ">>
    /\ matcher_calls = 1 /\ classifier_calls = 1
    /\ classify_text = Str(<<"b", " ">>)

\* C20 as stated: in the classification phase, whenever the resolver
\* returns a reply (anything but silence), handle returns shouldReply true
\* with that reply and the classifier's intent.
C20_ClassifiedReply_Original ==
    (Classified /\ reply # None)
        => /\ decision.should_reply
           /\ decision.reply_text = reply
           /\ decision.intent = Str(result.intent)

\* C20: in the classification phase, when the resolver returns a non-empty
\* reply, handle returns shouldReply true with that reply and the
\* classifier's intent; an empty reply of the resolver is answered like
\* silence: shouldReply false, no reply text, the classifier's intent.
C20_ClassifiedReply ==
    /\ (Classified /\ Truthy(reply))
          => /\ decision.should_reply
             /\ decision.reply_text = reply
             /\ decision.intent = Str(result.intent)
    /\ (Classified /\ reply = Str(<<>>))
          => /\ ~decision.should_reply
             /\ decision.reply_text = None
             /\ decision.intent = Str(result.intent)

C20_Witness ==
    /\ Classified
    /\ ~bot_config.keyword_reply_enabled /\ bot_config.ai_reply_enabled
    /\ result = [intent |-> Tag("TUTORIAL"), keyword |-> None,
                 faq_id |-> None]
    /\ reply = Str(<<"i">>)
    /\ decision = [should_reply |-> TRUE, reply_text |-> Str(<<"i">>),
                   matched_keyword |-> None,
                   intent |-> Str(Tag("TUTORIAL"))]

\* C21: handle returns silence (shouldReply false, no reply text) when
\* neither phase produced a reply: with aiReplyEnabled off when the keyword
\* phase gave no reply, and when the classification phase ran and the
\* resolver returned silence (as for intent FAQ with a faq_id that is not
\* in the FAQ table).
C21_NoReplyIsSilence ==
    /\ (pc = "returned" /\ ~bot_config.ai_reply_enabled
        /\ ~(bot_config.keyword_reply_enabled /\ KeywordOccurs))
          => (IsSilence /\ decision.intent = None)
    /\ (Classified /\ reply = None) => IsSilence

C21_Witness ==
    /\ Classified
    /\ result.intent = Tag("FAQ") /\ result.faq_id = Str(<<"f">>)
    /\ <<"f">> \notin DOMAIN faq_reply_map
    /\ Tag("FAQ") \in DOMAIN intent_reply_map
    /\ reply = None /\ IsSilence

C21_WitnessAiOff ==
    /\ pc = "returned"
    /\ bot_config.keyword_reply_enabled /\ ~bot_config.ai_reply_enabled
    /\ ~should_ignore_message(text)
    /\ keywords # <<>> /\ ~KeywordOccurs
    /\ matcher_calls = 1 /\ IsSilence

----------------------------------------------------------------------------
(* TelegramBot._handle_message: failures of the classification *)

\* the classification call failed: the configuration could not be read,
\* the remote call raised, timed out or returned no choice or no content,
\* or its payload is no object with one of the five tags as intent
ClassificationFailed ==
    /\ remote.call # "none"
    /\ \/ remote.call # "response"
       \/ remote.content = NoContent
       \/ Malformed

\* C22: when the classification call fails in any way for a message that
\* reached the classification phase, handle returns shouldReply false with
\* no reply text, no send is attempted, the handler is done, and no
\* exception reaches the caller of _handle_message.
C22_ClassificationFailureIsSilent ==
    (classifier_calls = 1 /\ ClassificationFailed)
        => /\ ~raised
           /\ pc = "returned" /\ dpc = "done"
           /\ IsSilence
           /\ ~SendAttempted

C22_Witness ==
    /\ dpc = "done" /\ pc = "returned"
    /\ classifier_calls = 1
    /\ remote.call = "response"
    /\ remote.content.kind = "dict"
    /\ remote.content.intent = JAbsent
    /\ remote.content.keyword = Str(<<"a">>)
    /\ <<"a">> \in DOMAIN keyword_reply_map
    /\ keyword_reply_map[<<"a">>] # <<>>
    /\ IsSilence /\ ~SendAttempted

C22_WitnessTimeout ==
    /\ dpc = "done" /\ pc = "returned"
    /\ remote.call = "timeout"
    /\ Tag("IGNORE") \in DOMAIN intent_reply_map
    /\ IsSilence /\ ~SendAttempted

----------------------------------------------------------------------------
(* The pipeline: the matched keyword of a decision *)

\* C26 as stated: with keywordReplyEnabled off the decision returned by
\* handle has an empty matchedKeyword, for every message and every
\* classifier result.
C26_ToggleOffNoMatchedKeyword_Original ==
    (pc = "returned" /\ ~bot_config.keyword_reply_enabled)
        => decision.matched_keyword = None

\* C26: with keywordReplyEnabled off no match of the matcher is reported:
\* the matcher is not invoked, every silent decision has an empty
\* matchedKeyword, and a replying decision (which then comes from the
\* classification phase) carries the keyword of the classifier's result.
C26_ToggleOffNoMatchedKeyword ==
    (pc = "returned" /\ ~bot_config.keyword_reply_enabled)
        => /\ matcher_calls = 0 /\ matched = None
           /\ ~decision.should_reply => decision.matched_keyword = None
           /\ decision.should_reply
                 => (Classified /\ decision.matched_keyword = result.keyword)

C26_Witness ==
    /\ Classified
    /\ ~bot_config.keyword_reply_enabled
    /\ KeywordOccurs
    /\ result.intent = Tag("TUTORIAL") /\ result.keyword = Str(<<"a">>)
    /\ decision.should_reply
    /\ decision.matched_keyword = Str(<<"a">>)

C26_WitnessSilent ==
    /\ Classified
    /\ ~bot_config.keyword_reply_enabled
    /\ KeywordOccurs
    /\ result.intent = Tag("IGNORE") /\ result.keyword = Str(<<"a">>)
    /\ ~decision.should_reply /\ decision.matched_keyword = None

----------------------------------------------------------------------------
(* ReplyManager: intent FAQ without a faq_id *)

C27_WitnessSilent ==
    /\ pc = "returned"
    /\ result = [intent |-> Tag("FAQ"), keyword |-> None, faq_id |-> None]
    /\ Tag("FAQ") \notin DOMAIN intent_reply_map
    /\ reply = None

----------------------------------------------------------------------------
(* The keyword table: rules with the same keyword *)

\* the first rule of the keyword list with keyword k
FirstRule(k) ==
    CHOOSE i \in 1..Len(keywords) :
        /\ keywords[i].keyword = k
        /\ \A j \in 1..(i - 1) : keywords[j].keyword # k

\* C28 as stated: the reply that get_reply_by_keyword gives for a keyword
\* the matcher returned is the reply of the earliest configured rule with
\* that keyword.
C28_EarliestRuleReply ==
    (pc = "returned" /\ matched.t = "str")
        => get_reply_by_keyword(matched.v)
              = Str(keywords[FirstRule(matched.v)].reply)

\* what holds instead: the reply is that of the last configured rule with
\* the keyword
KeywordReplyOfLastRule ==
    (pc = "returned" /\ matched.t = "str")
        => \E i \in 1..Len(keywords) :
              /\ keywords[i].keyword = matched.v
              /\ \A j \in (i + 1)..Len(keywords) :
                    keywords[j].keyword # matched.v
              /\ get_reply_by_keyword(matched.v) = Str(keywords[i].reply)

----------------------------------------------------------------------------
(* The pipeline: the form of a decision *)

\* C29 as stated: in every decision returned by handle, shouldReply is
\* true if and only if replyText is present and non-empty.
C29_DecisionWellFormed ==
    pc = "returned"
        => (decision.should_reply <=> Truthy(decision.reply_text))

\* what holds of every decision: a reply text is present exactly when
\* shouldReply is true, and a decision of the classification phase has a
\* non-empty reply text when shouldReply is true
DecisionHasTextIffReply ==
    pc = "returned"
        => /\ decision.should_reply <=> decision.reply_text.t = "str"
           /\ (Classified /\ decision.should_reply)
                 => Truthy(decision.reply_text)

\* C30 as stated: whenever handle returns shouldReply true with a
\* matchedKeyword k, k is a key of the keyword table and replyText is the
\* reply configured for k.
C30_MatchedKeywordIsSource ==
    (pc = "returned" /\ decision.should_reply
     /\ decision.matched_keyword # None)
        => /\ decision.matched_keyword.t = "str"
           /\ decision.matched_keyword.v \in DOMAIN keyword_reply_map
           /\ decision.reply_text
                 = Str(keyword_reply_map[decision.matched_keyword.v])

\* what holds: a decision of the keyword phase names the keyword its reply
\* comes from
KeywordPhaseNamesSource ==
    (pc = "returned" /\ decision.should_reply /\ classifier_calls = 0)
        => /\ decision.matched_keyword = matched
           /\ matched.t = "str"
           /\ matched.v \in DOMAIN keyword_reply_map
           /\ decision.reply_text = Str(keyword_reply_map[matched.v])

----------------------------------------------------------------------------
(* ConfigStore.load on its own: one load of a document, on a new store or  *)
(* on a store that an earlier load filled.                                 *)

MaxLoadIntents == 2    \* longest intent list of a document given to load

LoadIntentEntries ==
    [tag : {Tag("TUTORIAL"), Tag("IGNORE"), Tag("tutorial")},
     reply : {<<>>, <<" ">>, <<"i">>}]
LoadDocs ==
    [bot : {[keyword_reply_enabled |-> FALSE, ai_reply_enabled |-> TRUE]},
     intents : SeqsUpTo(LoadIntentEntries, MaxLoadIntents),
     keywords : {<<>>, <<[keyword |-> <<"a">>, reply |-> <<"k">>]>>,
                 <<[keyword |-> <<>>, reply |-> <<"k">>]>>},
     faq : {<<>>, <<[faq_id |-> <<"f">>, answer |-> <<"q">>]>>,
            <<[faq_id |-> <<>>, answer |-> <<"q">>]>>}]
\* documents of an earlier, successful load
PriorDocs ==
    {[bot |-> [keyword_reply_enabled |-> TRUE, ai_reply_enabled |-> TRUE],
      intents |-> <<[tag |-> Tag("FAQ"), reply |-> <<"i">>]>>,
      keywords |-> <<[keyword |-> <<"b">>, reply |-> <<>>]>>,
      faq |-> <<[faq_id |-> <<"f">>, answer |-> <<>>]>>],
     [bot |-> [keyword_reply_enabled |-> TRUE, ai_reply_enabled |-> FALSE],
      intents |-> <<[tag |-> Tag("TUTORIAL"), reply |-> <<"i">>]>>,
      keywords |-> <<>>, faq |-> <<>>]}

\* the fields of the ConfigStore
StoreNow ==
    [ok |-> TRUE, bot_config |-> bot_config,
     intents |-> intents, intent_reply_map |-> intent_reply_map,
     keywords |-> keywords, keyword_reply_map |-> keyword_reply_map,
     faqs |-> faqs, faq_reply_map |-> faq_reply_map]

InitLoad ==
    /\ \/ /\ bot_config = NewStore.bot_config
          /\ intents = NewStore.intents
          /\ intent_reply_map = NewStore.intent_reply_map
          /\ keywords = NewStore.keywords
          /\ keyword_reply_map = NewStore.keyword_reply_map
          /\ faqs = NewStore.faqs
          /\ faq_reply_map = NewStore.faq_reply_map
          /\ document = NoDocument
       \/ \E doc \in PriorDocs : Loaded(doc)
    /\ pc = "idle" /\ text = <<>> /\ matched = None
    /\ remote = NoRemote /\ result = NoResult /\ raised = FALSE
    /\ reply = None /\ decision = NoDecision
    /\ matcher_calls = 0 /\ classifier_calls = 0
    /\ classify_text = None /\ NoDelivery
    /\ tasks = NoTasks

\* load(doc) returns or raises ConfigError
LoadCall(doc) ==
    /\ pc = "idle"
    /\ document' = doc
    /\ LET l == load_onto(StoreNow, doc)
       IN  /\ pc' = IF l.ok THEN "returned" ELSE "raised"
           /\ raised' = ~l.ok
           /\ bot_config' = l.bot_config
           /\ intents' = l.intents
           /\ intent_reply_map' = l.intent_reply_map
           /\ keywords' = l.keywords
           /\ keyword_reply_map' = l.keyword_reply_map
           /\ faqs' = l.faqs
           /\ faq_reply_map' = l.faq_reply_map
    /\ UNCHANGED <<text, matched, remote, result, reply, decision,
                   matcher_calls, classifier_calls, classify_text, delivery,
                   tasks>>

NextLoad == \E doc \in LoadDocs : LoadCall(doc)

SpecLoad == InitLoad /\ [][NextLoad]_vars

\* the document has an intent other than IGNORE with an empty reply
HasEmptyReply(doc) ==
    \E i \in 1..Len(doc.intents) :
        /\ doc.intents[i].tag # Tag("IGNORE")
        /\ doc.intents[i].reply = <<>>

\* C23: load raises ConfigError for every document in which an intent
\* other than IGNORE has an empty reply; after a load that returned,
\* get_reply_by_intent gives a non-empty reply for every tag of the
\* document other than IGNORE (IGNORE may have an empty reply).
C23_NonIgnoreIntentsHaveReply ==
    /\ (pc # "idle" /\ HasEmptyReply(document))
          => (pc = "raised" /\ raised)
    /\ pc = "returned"
          => \A i \in 1..Len(document.intents) :
                document.intents[i].tag # Tag("IGNORE")
                   => Truthy(get_reply_by_intent(document.intents[i].tag))

C23_Witness ==
    /\ pc = "raised"
    /\ document.intents = <<[tag |-> Tag("IGNORE"), reply |-> <<>>],
                            [tag |-> Tag("TUTORIAL"), reply |-> <<>>]>>
    /\ document.keywords # <<>> /\ document.faq # <<>>

C23_WitnessLoaded ==
    /\ pc = "returned"
    /\ document.intents = <<[tag |-> Tag("TUTORIAL"), reply |-> <<"i">>],
                            [tag |-> Tag("IGNORE"), reply |-> <<>>]>>
    /\ get_reply_by_intent(Tag("TUTORIAL")) = Str(<<"i">>)
    /\ get_reply_by_intent(Tag("IGNORE")) = Str(<<>>)

\* C24 as stated: a load that raises ConfigError leaves the store as it
\* was before the call: no bot configuration, intent, keyword or FAQ entry
\* of the rejected document is in it, and its lookups answer as before.
C24_LoadAllOrNothing ==
    [][(pc = "idle" /\ pc' = "raised") => UNCHANGED store]_vars

\* what holds: the sections after the one that raised are as they were
\* before the call
LoadKeepsLaterSections ==
    [][(pc = "idle" /\ pc' = "raised")
          => /\ ~parse_intents(document'.intents).ok
                   => UNCHANGED <<keywords, keyword_reply_map, faqs,
                                  faq_reply_map>>
             /\ ~parse_keywords(document'.keywords).ok
                   => UNCHANGED <<faqs, faq_reply_map>>]_vars

----------------------------------------------------------------------------
(* Concurrent messages: NumTasks tasks of _handle_message in flight on one *)
(* event loop over one loaded store.  A task runs from one await to the    *)
(* next (classifier.classify, message.reply_text, asyncio.sleep) in one    *)
(* step, and the steps of the tasks interleave in any order.               *)

NumTasks == 2    \* tasks in flight

TaskIds == 1..NumTasks
ConcurrentTexts == {<<"a", "b">>, <<"b", "b">>, <<"/", "a">>}
ConcurrentDocs ==
    [bot : {[keyword_reply_enabled |-> TRUE, ai_reply_enabled |-> TRUE],
            [keyword_reply_enabled |-> FALSE, ai_reply_enabled |-> TRUE],
            [keyword_reply_enabled |-> TRUE, ai_reply_enabled |-> FALSE]},
     intents : {<<[tag |-> Tag("TUTORIAL"), reply |-> <<"i">>],
                  [tag |-> Tag("FAQ"), reply |-> <<"i">>]>>},
     keywords : {<<[keyword |-> <<"a">>, reply |-> <<"k">>]>>},
     faq : {<<[faq_id |-> <<"f">>, answer |-> <<"q">>]>>}]
\* what the remote call does for the message of a task
ConcurrentOutcomes ==
    {rem \in PipelineOutcomes :
        \/ rem.call = "timeout"
        \/ /\ rem.call = "response"
           /\ rem.content.kind = "too_deep"
        \/ /\ rem.call = "response"
           /\ rem.content.kind = "dict"
           /\ rem.content.keyword = None
           /\ \/ /\ rem.content.intent = Str(Tag("FAQ"))
                 /\ rem.content.faq_id = Str(<<"f">>)
              \/ /\ rem.content.intent # Str(Tag("FAQ"))
                 /\ rem.content.faq_id = None}

InitConcurrent ==
    /\ \E doc \in ConcurrentDocs : Loaded(doc)
    /\ pc = "idle" /\ text = <<>> /\ matched = None
    /\ remote = NoRemote /\ result = NoResult /\ raised = FALSE
    /\ reply = None /\ decision = NoDecision
    /\ matcher_calls = 0 /\ classifier_calls = 0
    /\ classify_text = None /\ NoDelivery
    /\ tasks = [i \in TaskIds |-> IdleTask]

\* task i receives its update; handle runs up to its return or to its await
TaskReceive(i, t) ==
    /\ tasks[i].dpc = "idle"
    /\ LET h == handle_sync(t)
           n == IF h.pc = "returned"
                THEN after_handle(h.decision)
                ELSE [dpc |-> "handling", attempt |-> 0, events |-> <<>>]
       IN  tasks' = [tasks EXCEPT ![i] =
                        [@ EXCEPT !.pc = h.pc, !.dpc = n.dpc, !.text = t,
                                  !.decision = h.decision,
                                  !.attempt = n.attempt,
                                  !.events = n.events]]
    /\ UNCHANGED <<store, document, pc, text, matched, remote, result,
                   raised, reply, decision, matcher_calls, classifier_calls,
                   classify_text, delivery>>

\* the classifier returns to task i; handle runs to its return and the
\* handler goes on to the delivery or returns
TaskResume(i, rem) ==
    /\ tasks[i].dpc = "handling"
    /\ LET returned == classify(rem)
           d == handle_resume(returned.value)
           n == after_handle(d)
       IN  /\ result' = returned.value
           /\ tasks' = [tasks EXCEPT ![i] =
                 IF returned.raised
                 THEN [@ EXCEPT !.pc = "raised", !.dpc = "raised",
                                !.remote = rem]
                 ELSE [@ EXCEPT !.pc = "returned", !.dpc = n.dpc,
                                !.remote = rem, !.decision = d,
                                !.attempt = n.attempt,
                                !.events = @ \o n.events]]
    /\ UNCHANGED <<store, document, pc, text, matched, remote, raised,
                   reply, decision, matcher_calls, classifier_calls,
                   classify_text, delivery>>

\* message.reply_text of task i returns (ok) or raises an Exception
TaskSend(i, ok) ==
    /\ tasks[i].dpc = "sending"
    /\ LET n == send_attempt(tasks[i].attempt, DEFAULT_MAX_RETRIES,
                             DEFAULT_RETRY_DELAY, ok)
       IN  tasks' = [tasks EXCEPT ![i] =
                        [@ EXCEPT !.dpc = n.dpc, !.attempt = n.attempt,
                                  !.events = @ \o n.events]]
    /\ UNCHANGED <<store, document, pc, text, matched, remote, result,
                   raised, reply, decision, matcher_calls, classifier_calls,
                   classify_text, delivery>>

\* asyncio.sleep of task i returns and its loop goes on
TaskWake(i) ==
    /\ tasks[i].dpc = "sleeping"
    /\ LET n == loop_next(tasks[i].attempt, DEFAULT_MAX_RETRIES)
       IN  tasks' = [tasks EXCEPT ![i] =
                        [@ EXCEPT !.dpc = n.dpc, !.attempt = n.attempt,
                                  !.events = @ \o n.events]]
    /\ UNCHANGED <<store, document, pc, text, matched, remote, result,
                   raised, reply, decision, matcher_calls, classifier_calls,
                   classify_text, delivery>>

NextConcurrent ==
    \/ \E i \in TaskIds, t \in ConcurrentTexts : TaskReceive(i, t)
    \/ \E i \in TaskIds, rem \in ConcurrentOutcomes : TaskResume(i, rem)
    \/ \E i \in TaskIds, ok \in BOOLEAN : TaskSend(i, ok)
    \/ \E i \in TaskIds : TaskWake(i)

SpecConcurrent == InitConcurrent /\ [][NextConcurrent]_vars

\* the decision handle returns for the text when no other message is in
\* flight and the remote call does rem for it
AloneDecision(t, rem) ==
    LET h == handle_sync(t)
    IN  IF h.pc = "returned" THEN h.decision
        ELSE handle_resume(classify(rem).value)

\* handle has returned to the task
TaskDecided(i) == tasks[i].pc = "returned"

\* the store holds what load made of the document
StoreAsLoaded ==
    LET l == load(document)
    IN  /\ bot_config = l.bot_config
        /\ intents = l.intents /\ intent_reply_map = l.intent_reply_map
        /\ keywords = l.keywords /\ keyword_reply_map = l.keyword_reply_map
        /\ faqs = l.faqs /\ faq_reply_map = l.faq_reply_map

\* C25: concurrent messages are independent: in every interleaving of the
\* handle and delivery steps of the tasks in flight, the decision of each
\* task is the decision handle returns for its text (and its classifier
\* outcome) when handled alone, and no step writes the rule tables or the
\* toggles.
C25_ConcurrentMessagesIndependent ==
    /\ StoreAsLoaded
    /\ \A i \in TaskIds :
          TaskDecided(i)
             => tasks[i].decision = AloneDecision(tasks[i].text,
                                                  tasks[i].remote)

\* a task got its reply from the classification and was delivered while
\* another task, with a keyword reply, is between two sends
C25_Witness ==
    /\ tasks[1].dpc = "delivered"
    /\ tasks[1].text = <<"b", "b">>
    /\ tasks[1].decision.reply_text = Str(<<"i">>)
    /\ tasks[1].events = <<SendFailed, Sleep(DEFAULT_RETRY_DELAY), SendOk>>
    /\ tasks[2].dpc = "sleeping"
    /\ tasks[2].text = <<"a", "b">>
    /\ tasks[2].decision.matched_keyword = Str(<<"a">>)
    /\ result = [intent |-> Tag("TUTORIAL"), keyword |-> None,
                 faq_id |-> None]

\* two tasks were suspended in the classifier at once and got different
\* results
C25_WitnessBothClassified ==
    /\ TaskDecided(1) /\ TaskDecided(2)
    /\ tasks[1].remote.call = "response" /\ tasks[2].remote.call = "response"
    /\ tasks[1].decision.reply_text = Str(<<"q">>)
    /\ tasks[2].decision.reply_text = Str(<<"i">>)
    /\ tasks[1].text = tasks[2].text

====
